---- MODULE Spec2Model ----
(***************************************************************************)
(* dcj.py: a pass-through wrapper around docker compose.                   *)
(*                                                                         *)
(* Strings are sequences of one-character strings, so that startswith,     *)
(* split, strip and replace are computed the way the Python code computes  *)
(* them.  An Optional[str] is None (the empty tuple) or Some(s) (a tuple   *)
(* holding the string).                                                    *)
(***************************************************************************)
EXTENDS Integers, Sequences, FiniteSets, TLC

VARIABLES rw, forms, environ, ld, argv, world, pc, mode, loc, trace, exit_code

vars == <<rw, forms, environ, ld, argv, world, pc, mode, loc, trace, exit_code>>

\* the variables of main()
mainVars == <<argv, world, pc, mode, loc, trace, exit_code>>

\* ------------------------------------------------------------------ bounds

MaxArgs == 3
MaxPre == 2
MaxSuf == 1
MaxLines == 3
MaxValLen == 4
MaxArgv == 2

\* ------------------------------------------------------- string literals

YML_FLAG == <<"-", "-", "y", "m", "l", "-", "f", "i", "l", "e">>
ENV_FLAG == <<"-", "-", "e", "n", "v", "-", "f", "i", "l", "e">>
DUMP_FLAG == <<"-", "-", "d", "u", "m", "p">>
DASH_F == <<"-", "f">>
FILE_FLAG == <<"-", "-", "f", "i", "l", "e">>
EQ == "="

\* ------------------------------------------------------- Python helpers

None == << >>
Some(s) == << s >>

\* str.startswith
StartsWith(s, p) == Len(s) >= Len(p) /\ SubSeq(s, 1, Len(p)) = p

\* str.endswith
EndsWith(s, p) == Len(s) >= Len(p) /\ SubSeq(s, Len(s) - Len(p) + 1, Len(s)) = p

\* str.find, 1-based; 0 when the character does not occur
RECURSIVE FindFrom(_, _, _)
FindFrom(s, c, k) ==
    IF k > Len(s) THEN 0
    ELSE IF s[k] = c THEN k
    ELSE FindFrom(s, c, k + 1)

\* s.split(c, 1): one part when c does not occur, else the two parts around
\* the first c
SplitOnce(s, c) ==
    LET k == FindFrom(s, c, 1)
    IN  IF k = 0 THEN << s >>
        ELSE << SubSeq(s, 1, k - 1), SubSeq(s, k + 1, Len(s)) >>

\* x in list
Contains(list, x) == \E k \in 1..Len(list) : list[k] = x

\* all sequences over S of length at most n
RECURSIVE SeqsUpTo(_, _)
SeqsUpTo(S, n) ==
    IF n = 0 THEN { << >> }
    ELSE LET shorter == SeqsUpTo(S, n - 1)
         IN  shorter \cup { Append(s, x) : s \in { t \in shorter : Len(t) = n - 1 }, x \in S }

\* ----------------------------------------------------------- ArgRewriter

CustomArgs == [yml_file |-> None, env_file |-> None, dump |-> FALSE]

\* ArgRewriter.__init__, and the locals of process() before its loop
ArgRewriter(tokens) ==
    [original_argv |-> tokens, rewritten |-> tokens, custom |-> CustomArgs,
     i |-> 0, out |-> << >>, pc |-> "loop", msg |-> << >>]

\* (mutation: the value token is read but the cursor moves past the flag only)
ValueFlagTwoToken_KeepValue(r, flag, field, repl) ==
    IF r.i + 1 >= Len(r.rewritten)
    THEN [r EXCEPT !.pc = "exit", !.msg = flag]
    ELSE LET value == r.rewritten[r.i + 2]
         IN  [r EXCEPT !.i = r.i + 1,
                       !.custom = [r.custom EXCEPT ![field] = Some(value)],
                       !.out = r.out \o << repl, value >>]

\* (mutation: a flag without a value is passed through instead of ending the run)
ValueFlagTwoToken_NoCheck(r, flag, field, repl) ==
    IF r.i + 1 >= Len(r.rewritten)
    THEN [r EXCEPT !.out = Append(r.out, flag), !.i = r.i + 1]
    ELSE LET value == r.rewritten[r.i + 2]
         IN  [r EXCEPT !.i = r.i + 2,
                       !.custom = [r.custom EXCEPT ![field] = Some(value)],
                       !.out = r.out \o << repl, value >>]

\* the body of `if tok == flag or tok.startswith(flag + "=")`; field is the
\* CustomArgs field the flag sets and repl the token emitted before its value
ValueFlagTwoToken(r, flag, field, repl) ==
    IF r.i + 1 >= Len(r.rewritten)
    THEN [r EXCEPT !.pc = "exit", !.msg = flag]
    ELSE LET value == r.rewritten[r.i + 2]
         IN  [r EXCEPT !.i = r.i + 2,
                       !.custom = [r.custom EXCEPT ![field] = Some(value)],
                       !.out = r.out \o << repl, value >>]

\* s.split(c): every part, cut at each c
RECURSIVE SplitAll(_, _)
SplitAll(s, c) ==
    LET k == FindFrom(s, c, 1)
    IN  IF k = 0 THEN << s >>
        ELSE << SubSeq(s, 1, k - 1) >> \o SplitAll(SubSeq(s, k + 1, Len(s)), c)

\* (mutation: split without the maxsplit of 1)
ValueFlagEquals_SplitAll(r, tok, field, repl) ==
    LET value == SplitAll(tok, EQ)[2]
    IN  [r EXCEPT !.i = r.i + 1,
                  !.custom = [r.custom EXCEPT ![field] = Some(value)],
                  !.out = r.out \o << repl, value >>]

ValueFlagEquals(r, tok, field, repl) ==
    LET value == SplitOnce(tok, EQ)[2]
    IN  [r EXCEPT !.i = r.i + 1,
                  !.custom = [r.custom EXCEPT ![field] = Some(value)],
                  !.out = r.out \o << repl, value >>]

ValueFlag(r, tok, flag, field, repl) ==
    IF tok = flag
    THEN ValueFlagTwoToken(r, flag, field, repl)
    ELSE ValueFlagEquals(r, tok, field, repl)

\* one evaluation of the while condition and, when it holds, one pass
\* through the loop body; when it fails, the two statements after the loop
ProcessStep(r) ==
    IF ~(r.i < Len(r.rewritten))
    THEN [r EXCEPT !.rewritten = r.out, !.pc = "returned"]
    ELSE LET tok == r.rewritten[r.i + 1]
         IN  IF tok = YML_FLAG \/ StartsWith(tok, Append(YML_FLAG, EQ))
             THEN ValueFlag(r, tok, YML_FLAG, "yml_file", DASH_F)
             ELSE IF tok = ENV_FLAG \/ StartsWith(tok, Append(ENV_FLAG, EQ))
             THEN ValueFlag(r, tok, ENV_FLAG, "env_file", ENV_FLAG)
             ELSE IF tok = DUMP_FLAG
             THEN [r EXCEPT !.custom = [r.custom EXCEPT !.dump = TRUE],
                            !.i = r.i + 1]
             ELSE [r EXCEPT !.out = Append(r.out, tok), !.i = r.i + 1]

\* process() run to its return or to its SystemExit
RECURSIVE Process(_)
Process(r) == IF r.pc # "loop" THEN r ELSE Process(ProcessStep(r))

\* what a variable holds in a specification that does not use it
IdleForms == [phase |-> "idle"]
IdleRw == [pc |-> "idle"]
IdleLd == [pc |-> "idle"]
IdleMain ==
    /\ argv = << >>
    /\ world = [templates |-> { }, docker |-> FALSE, legacy |-> FALSE]
    /\ pc = "idle"
    /\ mode = "none"
    /\ loc = [env_file |-> None]
    /\ trace = << >>
    /\ exit_code = 0

\* ------------------------------------------------------------ load_dotenv

UpperLetters ==
    << "A", "B", "C", "D", "E", "F", "G", "H", "I", "J", "K", "L", "M",
       "N", "O", "P", "Q", "R", "S", "T", "U", "V", "W", "X", "Y", "Z" >>
LowerLetters ==
    << "a", "b", "c", "d", "e", "f", "g", "h", "i", "j", "k", "l", "m",
       "n", "o", "p", "q", "r", "s", "t", "u", "v", "w", "x", "y", "z" >>
Digits == << "0", "1", "2", "3", "4", "5", "6", "7", "8", "9" >>

SQ == "'"
DQ == "\""
BACKSLASH == "\\"
HASH == "#"
NEWLINE == "\n"
TAB == "\t"
EXPORT_PREFIX == << "e", "x", "p", "o", "r", "t", " " >>

\* str.isspace for one character
IsSpace(c) == c \in { " ", "\t", "\n", "\r" }

\* str.isalnum for one character
IsAlnum(c) ==
    \/ \E k \in 1..Len(UpperLetters) : c = UpperLetters[k]
    \/ \E k \in 1..Len(LowerLetters) : c = LowerLetters[k]
    \/ \E k \in 1..Len(Digits) : c = Digits[k]

LowerChar(c) ==
    IF \E k \in 1..Len(UpperLetters) : c = UpperLetters[k]
    THEN LowerLetters[CHOOSE k \in 1..Len(UpperLetters) : c = UpperLetters[k]]
    ELSE c

\* str.lower
Lower(s) == [k \in 1..Len(s) |-> LowerChar(s[k])]

\* str.lstrip, str.rstrip, str.strip
RECURSIVE LStrip(_)
LStrip(s) == IF s # << >> /\ IsSpace(Head(s)) THEN LStrip(Tail(s)) ELSE s

RECURSIVE RStrip(_)
RStrip(s) ==
    IF s # << >> /\ IsSpace(s[Len(s)]) THEN RStrip(SubSeq(s, 1, Len(s) - 1)) ELSE s

Strip(s) == RStrip(LStrip(s))

\* str.replace(old, new): left to right, occurrences that do not overlap
RECURSIVE Replace(_, _, _)
Replace(s, old, new) ==
    IF Len(s) < Len(old) THEN s
    ELSE IF StartsWith(s, old)
    THEN new \o Replace(SubSeq(s, Len(old) + 1, Len(s)), old, new)
    ELSE << Head(s) >> \o Replace(Tail(s), old, new)

\* the loop of strip_inline_comment_unquoted, from the character at k (1-based)
RECURSIVE ScanComment(_, _, _, _, _)
ScanComment(text, k, in_single, in_double, esc) ==
    IF k > Len(text) THEN RStrip(text)
    ELSE LET ch == text[k]
         IN  IF esc THEN ScanComment(text, k + 1, in_single, in_double, FALSE)
             ELSE IF ch = BACKSLASH
             THEN ScanComment(text, k + 1, in_single, in_double, TRUE)
             ELSE IF ch = SQ /\ ~in_double
             THEN ScanComment(text, k + 1, ~in_single, in_double, FALSE)
             ELSE IF ch = DQ /\ ~in_single
             THEN ScanComment(text, k + 1, in_single, ~in_double, FALSE)
             ELSE IF ch = HASH /\ ~in_single /\ ~in_double
             THEN RStrip(SubSeq(text, 1, k - 1))
             ELSE ScanComment(text, k + 1, in_single, in_double, FALSE)

\* (mutation: the value is cut at its first "#", quoted or not)
strip_inline_comment_unquoted_AnyHash(text) ==
    LET c == FindFrom(text, HASH, 1)
    IN  IF c = 0 THEN RStrip(text) ELSE RStrip(SubSeq(text, 1, c - 1))

strip_inline_comment_unquoted(text) == ScanComment(text, 1, FALSE, FALSE, FALSE)

\* (val.startswith("'") and val.endswith("'")) or (val.startswith('"') and val.endswith('"'))
IsQuoted(val) ==
    \/ StartsWith(val, << SQ >>) /\ EndsWith(val, << SQ >>)
    \/ StartsWith(val, << DQ >>) /\ EndsWith(val, << DQ >>)

\* the chain of four replace calls
DecodeEscapes(val) ==
    Replace(Replace(Replace(Replace(val,
        << BACKSLASH, "n" >>, << NEWLINE >>),
        << BACKSLASH, "t" >>, << TAB >>),
        << BACKSLASH, DQ >>, << DQ >>),
        << BACKSLASH, SQ >>, << SQ >>)

\* val[1:-1] and the escape decoding under its condition
Unquote(raw_line, val) ==
    LET inner == SubSeq(val, 2, Len(val) - 1)
    IN  IF StartsWith(Strip(raw_line), << DQ >>) \/ (inner # << >> /\ inner[1] # SQ)
        THEN DecodeEscapes(inner)
        ELSE inner

\* the value of a line, from the text after the first "="
ParseValue(raw_line, text) ==
    LET val0 == Strip(text)
        val1 == IF ~IsQuoted(val0)
                THEN Strip(strip_inline_comment_unquoted(val0))
                ELSE val0
    IN  IF IsQuoted(val1) THEN Unquote(raw_line, val1) ELSE val1

\* key and all(c == '_' or c.isalnum() for c in key)
ValidKey(key) ==
    /\ key # << >>
    /\ \A k \in 1..Len(key) : key[k] = "_" \/ IsAlnum(key[k])

\* one line of the file up to the key test: skip is TRUE for a line the loop
\* passes over (blank, comment, no "=", invalid key)
ParseLine(raw_line) ==
    LET line0 == Strip(raw_line)
        line == IF StartsWith(Lower(line0), EXPORT_PREFIX)
                THEN LStrip(SubSeq(line0, 8, Len(line0)))
                ELSE line0
    IN  IF line0 = << >> \/ StartsWith(line0, << HASH >>)
        THEN [skip |-> TRUE, key |-> << >>, val |-> << >>]
        ELSE IF ~Contains(line, EQ)
        THEN [skip |-> TRUE, key |-> << >>, val |-> << >>]
        ELSE LET parts == SplitOnce(line, EQ)
                 key == Strip(parts[1])
                 val == ParseValue(raw_line, parts[2])
             IN  [skip |-> ~ValidKey(key), key |-> key, val |-> val]

EmptyEnv == [k \in { } |-> << >>]

\* (mutation: the binding is installed whether or not the key is bound)
InstallBinding_Overwrite(env, loaded_keys, key, val) ==
    [environ |-> [k \in DOMAIN env \cup { key } |-> IF k = key THEN val ELSE env[k]],
     loaded_keys |-> Append(loaded_keys, key)]

\* if key not in os.environ: os.environ[key] = val; loaded_keys.append(key)
InstallBinding(env, loaded_keys, key, val) ==
    IF key \notin DOMAIN env
    THEN [environ |-> [k \in DOMAIN env \cup { key } |-> IF k = key THEN val ELSE env[k]],
          loaded_keys |-> Append(loaded_keys, key)]
    ELSE [environ |-> env, loaded_keys |-> loaded_keys]

\* one pass through the body of `for raw_line in f`
DotenvLine(env, loaded_keys, raw_line) ==
    LET p == ParseLine(raw_line)
    IN  IF p.skip
        THEN [environ |-> env, loaded_keys |-> loaded_keys]
        ELSE InstallBinding(env, loaded_keys, p.key, p.val)

\* the whole loop over the lines from index k on
RECURSIVE DotenvLines(_, _, _, _)
DotenvLines(env, loaded_keys, lines, k) ==
    IF k > Len(lines) THEN [environ |-> env, loaded_keys |-> loaded_keys]
    ELSE LET r == DotenvLine(env, loaded_keys, lines[k])
         IN  DotenvLines(r.environ, r.loaded_keys, lines, k + 1)

\* --------------------------------------- specification: load_dotenv

K_KEY == << "K" >>
FOO_KEY == << "F", "O", "O" >>

SmallLines ==
    { FOO_KEY \o << "=", "f" >>,
      FOO_KEY \o << "=", "g" >>,
      K_KEY \o << "=", "v" >>,
      << "E", "x", "p", "o", "r", "t", " ", " " >> \o K_KEY \o << " ", "=", " ", "w", "\n" >>,
      << " ", "#", "K", "=", "c" >>,
      << " ", "\n" >>,
      << "K" >>,
      << "K", "-", "1", "=", "z" >>,
      << "=", "v" >> }

ValChars == { "n", HASH, SQ, DQ, BACKSLASH, " " }

SmallFiles == SeqsUpTo(SmallLines, MaxLines)
RichFiles == { << K_KEY \o << EQ >> \o v >> : v \in SeqsUpTo(ValChars, MaxValLen) }

Ambients == { EmptyEnv, [k \in { FOO_KEY } |-> << "a", "m", "b" >>] }

\* the state at the call: the ambient environment and what the path names
InitDotenv ==
    /\ rw = IdleRw
    /\ forms = IdleForms
    /\ IdleMain
    /\ \/ \E lines \in SmallFiles, env \in Ambients, isfile \in BOOLEAN :
            /\ environ = env
            /\ ld = [pc |-> "isfile", isfile |-> isfile, lines |-> lines, idx |-> 0,
                     loaded_keys |-> << >>, environ0 |-> env]
       \/ \E lines \in RichFiles :
            /\ environ = EmptyEnv
            /\ ld = [pc |-> "isfile", isfile |-> TRUE, lines |-> lines, idx |-> 0,
                     loaded_keys |-> << >>, environ0 |-> EmptyEnv]

\* if not os.path.isfile(path): return loaded_keys
LdIsFile ==
    /\ ld.pc = "isfile"
    /\ ld' = [ld EXCEPT !.pc = IF ld.isfile THEN "loop" ELSE "returned"]
    /\ UNCHANGED <<rw, forms, environ, mainVars>>

\* one line read and handled
LdLine ==
    /\ ld.pc = "loop"
    /\ ld.idx < Len(ld.lines)
    /\ LET r == DotenvLine(environ, ld.loaded_keys, ld.lines[ld.idx + 1])
       IN  /\ environ' = r.environ
           /\ ld' = [ld EXCEPT !.idx = ld.idx + 1, !.loaded_keys = r.loaded_keys]
    /\ UNCHANGED <<rw, forms, mainVars>>

\* the file is exhausted: return loaded_keys
LdReturn ==
    /\ ld.pc = "loop"
    /\ ld.idx = Len(ld.lines)
    /\ ld' = [ld EXCEPT !.pc = "returned"]
    /\ UNCHANGED <<rw, forms, environ, mainVars>>

\* reading raises (an I/O or decoding error): the except clause warns and
\* the keys added so far are returned
LdReadError ==
    /\ ld.pc = "loop"
    /\ ld.idx < Len(ld.lines)
    /\ ld' = [ld EXCEPT !.pc = "returned"]
    /\ UNCHANGED <<rw, forms, environ, mainVars>>

NextDotenv == LdIsFile \/ LdLine \/ LdReturn \/ LdReadError

SpecDotenv == InitDotenv /\ [][NextDotenv]_vars

\* ------------------------------------------------------------------ main

DEFAULT_TEMPLATE_NAMES ==
    << <<"d", "o", "c", "k", "e", "r", "-", "c", "o", "m", "p", "o", "s", "e", ".", "j", "i", "n", "j", "a", ".", "y", "m", "l">>,
       <<"d", "o", "c", "k", "e", "r", "-", "c", "o", "m", "p", "o", "s", "e", ".", "j", "i", "n", "j", "a">>,
       <<"d", "o", "c", "k", "e", "r", "-", "c", "o", "m", "p", "o", "s", "e", ".", "j", "2", ".", "y", "m", "l">>,
       <<"d", "o", "c", "k", "e", "r", "-", "c", "o", "m", "p", "o", "s", "e", ".", "j", "2">> >>
DEFAULT_OUTPUT_YML ==
    <<"d", "o", "c", "k", "e", "r", "-", "c", "o", "m", "p", "o", "s", "e", ".", "y", "m", "l">>
DEFAULT_ENV_FILE == <<".", "e", "n", "v">>
H_SHORT == <<"-", "h">>
HELP_LONG == <<"-", "-", "h", "e", "l", "p">>
JHELP == <<"-", "-", "j", "h", "e", "l", "p">>
JDEBUG == <<"-", "-", "j", "d", "e", "b", "u", "g">>
COMPOSE == <<"c", "o", "m", "p", "o", "s", "e">>
SLASH == "/"

\* what shutil.which returns for a binary that is on the PATH
DOCKER_BIN == <<"/", "u", "s", "r", "/", "b", "i", "n", "/", "d", "o", "c", "k", "e", "r">>
LEGACY_BIN ==
    <<"/", "u", "s", "r", "/", "b", "i", "n", "/", "d", "o", "c", "k", "e", "r", "-", "c", "o", "m", "p", "o", "s", "e">>

\* bool(x) of an Optional[str]
Truthy(opt) == opt # None /\ opt[1] # << >>

\* `x or default` of an Optional[str]
OrDefault(opt, default) == IF Truthy(opt) THEN opt[1] ELSE default

\* (mutation: the legacy binary is returned without the test that it was found)
which_compose_NoRaise(w) ==
    IF w.docker THEN [ok |-> TRUE, argv |-> << DOCKER_BIN, COMPOSE >>]
    ELSE [ok |-> TRUE, argv |-> << LEGACY_BIN >>]

\* which_compose: ok is FALSE when it raises RuntimeError
which_compose(w) ==
    IF w.docker THEN [ok |-> TRUE, argv |-> << DOCKER_BIN, COMPOSE >>]
    ELSE IF w.legacy THEN [ok |-> TRUE, argv |-> << LEGACY_BIN >>]
    ELSE [ok |-> FALSE, argv |-> << >>]

\* parse_equals_or_next: the value, or err when it raises SystemExit
RECURSIVE ParseFrom(_, _, _)
ParseFrom(tokens, flag, k) ==
    IF k > Len(tokens) THEN [value |-> None, err |-> FALSE]
    ELSE IF tokens[k] = flag
    THEN (IF k < Len(tokens)
          THEN [value |-> Some(tokens[k + 1]), err |-> FALSE]
          ELSE [value |-> None, err |-> TRUE])
    ELSE IF StartsWith(tokens[k], Append(flag, EQ))
    THEN [value |-> Some(SplitOnce(tokens[k], EQ)[2]), err |-> FALSE]
    ELSE ParseFrom(tokens, flag, k + 1)

parse_equals_or_next(tokens, flag) == ParseFrom(tokens, flag, 1)

\* find_first_template over the files the working directory holds
find_first_template(existing) ==
    IF \E k \in 1..Len(DEFAULT_TEMPLATE_NAMES) : DEFAULT_TEMPLATE_NAMES[k] \in existing
    THEN Some(DEFAULT_TEMPLATE_NAMES[
             CHOOSE k \in 1..Len(DEFAULT_TEMPLATE_NAMES) :
                 /\ DEFAULT_TEMPLATE_NAMES[k] \in existing
                 /\ \A h \in 1..(k - 1) : DEFAULT_TEMPLATE_NAMES[h] \notin existing])
    ELSE None

\* str.rstrip("/")
RECURSIVE RStripSlash(_)
RStripSlash(s) ==
    IF s # << >> /\ s[Len(s)] = SLASH THEN RStripSlash(SubSeq(s, 1, Len(s) - 1)) ELSE s

\* os.path.dirname (posixpath)
Dirname(path) ==
    LET cut == IF Contains(path, SLASH)
               THEN CHOOSE k \in 1..Len(path) :
                        path[k] = SLASH /\ \A h \in (k + 1)..Len(path) : path[h] # SLASH
               ELSE 0
        head == SubSeq(path, 1, cut)
    IN  IF head # << >> /\ \E k \in 1..Len(head) : head[k] # SLASH
        THEN RStripSlash(head)
        ELSE head

\* load_dotenv(path) as main calls it: nothing when the path is no file;
\* nread lines are read before the end of the file or a read error, which
\* the except clause turns into a warning
load_dotenv(env, isfile, lines, nread) ==
    IF isfile THEN DotenvLines(env, << >>, SubSeq(lines, 1, nread), 1)
    ELSE [environ |-> env, loaded_keys |-> << >>]

\* len(argv) == 1 and argv[0] in ("-h", "--help")
IsPlainHelp(tokens) == Len(tokens) = 1 /\ tokens[1] \in { H_SHORT, HELP_LONG }

\* (mutation: only "-f" is looked for)
NoFileFlag_ShortOnly(rewritten) == ~Contains(rewritten, DASH_F)

\* "-f" not in rewriter.rewritten and "--file" not in rewriter.rewritten
NoFileFlag(rewritten) == ~Contains(rewritten, DASH_F) /\ ~Contains(rewritten, FILE_FLAG)

\* one observable step of a run, in the order the run takes them
Ev(op, arg) == [op |-> op, arg |-> arg]

Happened(op) == \E k \in 1..Len(trace) : trace[k].op = op

\* ----------------------------------------------- specification: main

MainTokens ==
    { H_SHORT, HELP_LONG, JHELP, JDEBUG, DUMP_FLAG, YML_FLAG, ENV_FLAG,
      YML_FLAG \o << "=", "d", "/", "o" >>, YML_FLAG \o << "=" >>,
      ENV_FLAG \o << "=", "e" >>, ENV_FLAG \o << "=" >>,
      DASH_F, FILE_FLAG, << "u", "p" >>, << >> }

TemplateWorlds ==
    { { }, { DEFAULT_TEMPLATE_NAMES[2] }, { DEFAULT_TEMPLATE_NAMES[3], DEFAULT_TEMPLATE_NAMES[4] } }

\* the lines of the env file, when the path names a file
MainEnvLines == << FOO_KEY \o << "=", "f" >>, K_KEY \o << "=", DQ, "v", DQ >> >>

MainAmbient == [k \in { FOO_KEY } |-> << "a", "m", "b" >>]

ReturnCodes == { 0, 1, 130 }

RenderOutcomes == { "ok", "TemplateError", "ImportError" }

NoLocals ==
    [argv_wo_dbg |-> << >>, env_file |-> None, template_path |-> None,
     output_yml |-> None, needs_default_f |-> None, final_args |-> << >>]

Init ==
    /\ rw = IdleRw
    /\ forms = IdleForms
    /\ ld = IdleLd
    /\ environ = MainAmbient
    /\ argv \in SeqsUpTo(MainTokens, MaxArgv)
    /\ \E t \in TemplateWorlds, d \in BOOLEAN, l \in BOOLEAN :
           world = [templates |-> t, docker |-> d, legacy |-> l]
    /\ pc = "main"
    /\ mode = "none"
    /\ loc = NoLocals
    /\ trace = << >>
    /\ exit_code = 0

\* the process ends with this status
Exit(code) == pc' = "done" /\ exit_code' = code

Goto(label) == pc' = label /\ UNCHANGED exit_code

\* 0) a lone -h or --help is forwarded to docker compose
HelpPassthrough ==
    /\ pc = "main"
    /\ IsPlainHelp(argv)
    /\ mode' = "HelpPassthrough"
    /\ LET w == which_compose(world)
       IN  IF ~w.ok
           THEN /\ trace' = << Ev("which", "RuntimeError") >>
                /\ Exit(1)
           ELSE \E rc \in ReturnCodes :
                /\ trace' = << Ev("which", "found"), Ev("stdout", "forwarding"),
                               Ev("run", w.argv \o << argv[1] >>), Ev("stdout", "tip") >>
                /\ Exit(rc)
    /\ UNCHANGED <<rw, forms, environ, ld, argv, world, loc>>

\* 0a) --jhelp
Help ==
    /\ pc = "main"
    /\ ~IsPlainHelp(argv)
    /\ Contains(argv, JHELP)
    /\ mode' = "Help"
    /\ trace' = << Ev("stdout", "help") >>
    /\ Exit(0)
    /\ UNCHANGED <<rw, forms, environ, ld, argv, world, loc>>

\* (mutation: --jdebug is looked for before --jhelp)
Debug_BeforeHelp ==
    /\ pc = "main"
    /\ ~IsPlainHelp(argv)
    /\ Contains(argv, JDEBUG)
    /\ mode' = "Debug"
    /\ loc' = [loc EXCEPT !.argv_wo_dbg = SelectSeq(argv, LAMBDA t : t # JDEBUG)]
    /\ Goto("dbg_env")
    /\ UNCHANGED <<rw, forms, environ, ld, argv, world, trace>>

\* 0b) --jdebug: every occurrence is removed and run_single_debug entered
Debug ==
    /\ pc = "main"
    /\ ~IsPlainHelp(argv)
    /\ ~Contains(argv, JHELP)
    /\ Contains(argv, JDEBUG)
    /\ mode' = "Debug"
    /\ loc' = [loc EXCEPT !.argv_wo_dbg = SelectSeq(argv, LAMBDA t : t # JDEBUG)]
    /\ Goto("dbg_env")
    /\ UNCHANGED <<rw, forms, environ, ld, argv, world, trace>>

\* run_single_debug: the env file is found in the arguments and loaded
DebugLoadEnv ==
    /\ pc = "dbg_env"
    /\ LET p == parse_equals_or_next(loc.argv_wo_dbg, ENV_FLAG)
           env_file == OrDefault(p.value, DEFAULT_ENV_FILE)
       IN  IF p.err
           THEN /\ Exit(1)
                /\ UNCHANGED <<environ, loc, trace>>
           ELSE \E isfile \in BOOLEAN, nread \in 0..Len(MainEnvLines) :
                LET r == load_dotenv(environ, isfile, MainEnvLines, nread)
                IN  /\ environ' = r.environ
                    /\ loc' = [loc EXCEPT !.env_file = Some(env_file)]
                    /\ trace' = Append(trace, Ev("load_dotenv", env_file))
                    /\ Goto("dbg_template")
    /\ UNCHANGED <<rw, forms, ld, argv, world, mode>>

\* run_single_debug: template detection, the planned output and the runner
DebugPlan ==
    /\ pc = "dbg_template"
    /\ LET p == parse_equals_or_next(loc.argv_wo_dbg, YML_FLAG)
       IN  IF p.err
           THEN /\ loc' = [loc EXCEPT !.template_path = find_first_template(world.templates)]
                /\ trace' = Append(trace, Ev("find_template", world.templates))
                /\ Exit(1)
           ELSE /\ loc' = [loc EXCEPT
                              !.template_path = find_first_template(world.templates),
                              !.output_yml = Some(OrDefault(p.value, DEFAULT_OUTPUT_YML))]
                /\ trace' = trace \o << Ev("find_template", world.templates),
                                        Ev("which", IF which_compose(world).ok
                                                    THEN "found" ELSE "RuntimeError") >>
                /\ Goto("dbg_rewrite")
    /\ UNCHANGED <<rw, forms, environ, ld, argv, world, mode>>

\* run_single_debug: the preview of the rewritten arguments
DebugRewrite ==
    /\ pc = "dbg_rewrite"
    /\ rw' = Process(ArgRewriter(loc.argv_wo_dbg))
    /\ trace' = Append(trace, Ev("process", loc.argv_wo_dbg))
    /\ IF rw'.pc = "exit" THEN Exit(1) ELSE Goto("dbg_render")
    /\ UNCHANGED <<forms, environ, ld, argv, world, mode, loc>>

\* run_single_debug: the template is rendered in memory, nothing is written
DebugRender ==
    /\ pc = "dbg_render"
    /\ IF loc.template_path = None
       THEN /\ Exit(0)
            /\ UNCHANGED trace
       ELSE \E outcome \in RenderOutcomes :
            /\ trace' = Append(trace, Ev("render", outcome))
            /\ Exit(IF outcome = "ok" THEN 0 ELSE 1)
    /\ UNCHANGED <<rw, forms, environ, ld, argv, world, mode, loc>>

\* 1) none of the special modes: the arguments are rewritten
Rewrite ==
    /\ pc = "main"
    /\ ~IsPlainHelp(argv)
    /\ ~Contains(argv, JHELP)
    /\ ~Contains(argv, JDEBUG)
    /\ mode' = "Normal"
    /\ rw' = Process(ArgRewriter(argv))
    /\ trace' = Append(trace, Ev("process", argv))
    /\ IF rw'.pc = "exit" THEN Exit(1) ELSE Goto("load_env")
    /\ UNCHANGED <<forms, environ, ld, argv, world, loc>>

\* 2) the env file is chosen and loaded
LoadEnv ==
    /\ pc = "load_env"
    /\ LET env_file == OrDefault(rw.custom.env_file, DEFAULT_ENV_FILE)
       IN  \E isfile \in BOOLEAN, nread \in 0..Len(MainEnvLines) :
           LET r == load_dotenv(environ, isfile, MainEnvLines, nread)
               warn == IF Truthy(rw.custom.env_file) /\ ~isfile
                       THEN << Ev("stderr", "warning") >> ELSE << >>
           IN  /\ environ' = r.environ
               /\ loc' = [loc EXCEPT !.env_file = Some(env_file)]
               /\ trace' = trace \o warn \o << Ev("load_dotenv", env_file) >>
    /\ Goto("template")
    /\ UNCHANGED <<rw, forms, ld, argv, world, mode>>

\* 3) template detection; without a template, --dump ends the run
FindTemplate ==
    /\ pc = "template"
    /\ LET template_path == find_first_template(world.templates)
       IN  /\ loc' = [loc EXCEPT
                         !.template_path = template_path,
                         !.output_yml =
                             IF template_path # None
                             THEN Some(OrDefault(rw.custom.yml_file, DEFAULT_OUTPUT_YML))
                             ELSE None]
           /\ IF template_path # None
              THEN /\ trace' = Append(trace, Ev("find_template", world.templates))
                   /\ Goto("makedirs")
              ELSE IF rw.custom.dump
              THEN /\ trace' = trace \o << Ev("find_template", world.templates),
                                           Ev("stderr", "no template") >>
                   /\ Exit(2)
              ELSE /\ trace' = Append(trace, Ev("find_template", world.templates))
                   /\ Goto("which")
    /\ UNCHANGED <<rw, forms, environ, ld, argv, world, mode>>

\* the parent directory of the output path is created when it is missing;
\* os.makedirs may raise OSError, which nothing catches
MakeDirs ==
    /\ pc = "makedirs"
    /\ LET out_dir == Dirname(loc.output_yml[1])
           next == IF rw.custom.dump THEN "dump" ELSE "render"
       IN  IF out_dir # << >>
           THEN \E outcome \in { "isdir", "created", "OSError" } :
                CASE outcome = "isdir" -> UNCHANGED trace /\ Goto(next)
                  [] outcome = "created" ->
                         /\ trace' = Append(trace, Ev("makedirs", out_dir))
                         /\ Goto(next)
                  [] outcome = "OSError" ->
                         /\ trace' = Append(trace, Ev("makedirs failed", out_dir))
                         /\ Exit(1)
           ELSE UNCHANGED trace /\ Goto(next)
    /\ UNCHANGED <<rw, forms, environ, ld, argv, world, mode, loc>>

\* (mutation: no return after the rendered text is printed)
DumpRender_NoReturn ==
    /\ pc = "dump"
    /\ \E outcome \in RenderOutcomes :
           IF outcome = "ok"
           THEN /\ trace' = trace \o << Ev("render", outcome), Ev("stdout", "rendered") >>
                /\ Goto("render")
           ELSE /\ trace' = Append(trace, Ev("render", outcome))
                /\ Exit(1)
    /\ UNCHANGED <<rw, forms, environ, ld, argv, world, mode, loc>>

\* --dump: the template is rendered to stdout and the run ends
DumpRender ==
    /\ pc = "dump"
    /\ \E outcome \in RenderOutcomes :
           CASE outcome = "ok" ->
                    /\ trace' = trace \o << Ev("render", outcome), Ev("stdout", "rendered") >>
                    /\ Exit(0)
             [] outcome = "TemplateError" ->
                    /\ trace' = trace \o << Ev("render", outcome), Ev("stderr", "render failed") >>
                    /\ Exit(1)
             [] outcome = "ImportError" ->
                    /\ trace' = Append(trace, Ev("render", outcome))
                    /\ Exit(1)
    /\ UNCHANGED <<rw, forms, environ, ld, argv, world, mode, loc>>

\* render_template_to_yaml, then the decision to inject -f; a failure to
\* render or to open the output file is caught by nothing
RenderToFile ==
    /\ pc = "render"
    /\ \E outcome \in RenderOutcomes \cup { "OSError" } :
           IF outcome = "ok"
           THEN /\ trace' = trace \o << Ev("render", outcome), Ev("write", loc.output_yml[1]) >>
                /\ loc' = [loc EXCEPT !.needs_default_f =
                              IF NoFileFlag(rw.rewritten) THEN loc.output_yml ELSE None]
                /\ Goto("which")
           ELSE /\ trace' = IF outcome = "OSError"
                            THEN trace \o << Ev("render", "ok"),
                                             Ev("write failed", loc.output_yml[1]) >>
                            ELSE Append(trace, Ev("render", outcome))
                /\ UNCHANGED loc
                /\ Exit(1)
    /\ UNCHANGED <<rw, forms, environ, ld, argv, world, mode>>

\* 4) and 5) the runner is resolved, the command built and run
Execute ==
    /\ pc = "which"
    /\ LET w == which_compose(world)
           final_args == IF Truthy(loc.needs_default_f)
                         THEN << DASH_F, loc.needs_default_f[1] >> \o rw.rewritten
                         ELSE rw.rewritten
       IN  IF ~w.ok
           THEN /\ trace' = Append(trace, Ev("which", "RuntimeError"))
                /\ UNCHANGED loc
                /\ Exit(1)
           ELSE \E rc \in ReturnCodes :
                /\ loc' = [loc EXCEPT !.final_args = final_args]
                /\ trace' = trace \o << Ev("which", "found"), Ev("stdout", "using"),
                                        Ev("run", w.argv \o final_args) >>
                /\ Exit(rc)
    /\ UNCHANGED <<rw, forms, environ, ld, argv, world, mode>>

Next ==
    \/ HelpPassthrough
    \/ Help
    \/ Debug
    \/ DebugLoadEnv
    \/ DebugPlan
    \/ DebugRewrite
    \/ DebugRender
    \/ Rewrite
    \/ LoadEnv
    \/ FindTemplate
    \/ MakeDirs
    \/ DumpRender
    \/ RenderToFile
    \/ Execute

Spec == Init /\ [][Next]_vars

\* ------------------------------------------- specification: the rewriter

RwTokens ==
    { YML_FLAG, ENV_FLAG, DUMP_FLAG, DASH_F,
      YML_FLAG \o << "=", "o" >>, YML_FLAG \o << "=" >>,
      YML_FLAG \o << "=", "o", "=", "p" >>,
      ENV_FLAG \o << "=", "e" >>,
      YML_FLAG \o << "x" >>, DUMP_FLAG \o << "=", "1" >>,
      << "u", "p" >>, << "o" >> }


InitRewrite ==
    /\ \E tokens \in SeqsUpTo(RwTokens, MaxArgs) : rw = ArgRewriter(tokens)
    /\ forms = IdleForms
    /\ environ = EmptyEnv
    /\ ld = IdleLd
    /\ IdleMain

ProcessIter ==
    /\ rw.pc = "loop"
    /\ rw' = ProcessStep(rw)
    /\ UNCHANGED <<forms, environ, ld, mainVars>>

NextRewrite == ProcessIter

SpecRewrite == InitRewrite /\ [][NextRewrite]_vars

\* ------------------------- specification: the two forms of --yml-file

FormTokens ==
    { YML_FLAG, ENV_FLAG, DUMP_FLAG, DASH_F, ENV_FLAG \o << "=", "e" >>, << "u", "p" >> }

FormValues ==
    { << "o" >>, << >>, << "o", "=", "p" >>, << "=" >>, DUMP_FLAG, YML_FLAG, ENV_FLAG }

TwoTokenForm(pre, val, suf) == pre \o << YML_FLAG, val >> \o suf
OneTokenForm(pre, val, suf) == pre \o << YML_FLAG \o << EQ >> \o val >> \o suf

InitForms ==
    /\ rw = IdleRw
    /\ environ = EmptyEnv
    /\ ld = IdleLd
    /\ IdleMain
    /\ \E pre \in SeqsUpTo(FormTokens, MaxPre), val \in FormValues,
          suf \in SeqsUpTo(FormTokens, MaxSuf) :
          forms = [phase |-> "start", pre |-> pre, val |-> val, suf |-> suf,
                   two |-> IdleRw, one |-> IdleRw]

RunTwoToken ==
    /\ forms.phase = "start"
    /\ forms' = [forms EXCEPT
                    !.two = Process(ArgRewriter(TwoTokenForm(forms.pre, forms.val, forms.suf))),
                    !.phase = "two"]
    /\ UNCHANGED <<rw, environ, ld, mainVars>>

RunOneToken ==
    /\ forms.phase = "two"
    /\ forms' = [forms EXCEPT
                    !.one = Process(ArgRewriter(OneTokenForm(forms.pre, forms.val, forms.suf))),
                    !.phase = "done"]
    /\ UNCHANGED <<rw, environ, ld, mainVars>>

NextForms == RunTwoToken \/ RunOneToken

SpecForms == InitForms /\ [][NextForms]_vars

\* ------------------------------------------------------------ claims

\* t is the single token `flag=V`
IsEqForm(t, flag) ==
    /\ Len(t) > Len(flag)
    /\ \A k \in 1..Len(flag) : t[k] = flag[k]
    /\ t[Len(flag) + 1] = "="

\* the V of the single token `flag=V`
EqValue(t, flag) == [k \in 1..(Len(t) - Len(flag) - 1) |-> t[Len(flag) + 1 + k]]

\* the input with each custom-flag occurrence replaced in place
RECURSIVE InPlace(_)
InPlace(s) ==
    IF s = << >> THEN << >>
    ELSE LET t == Head(s)
             rest == Tail(s)
         IN  CASE t = YML_FLAG /\ rest # << >> ->
                      << DASH_F, Head(rest) >> \o InPlace(Tail(rest))
               [] t = ENV_FLAG /\ rest # << >> ->
                      << ENV_FLAG, Head(rest) >> \o InPlace(Tail(rest))
               [] IsEqForm(t, YML_FLAG) ->
                      << DASH_F, EqValue(t, YML_FLAG) >> \o InPlace(rest)
               [] IsEqForm(t, ENV_FLAG) ->
                      << ENV_FLAG, EqValue(t, ENV_FLAG) >> \o InPlace(rest)
               [] t = DUMP_FLAG -> InPlace(rest)
               [] OTHER -> << t >> \o InPlace(rest)

NoCustomFlag(s) ==
    \A k \in 1..Len(s) :
        /\ s[k] \notin { YML_FLAG, ENV_FLAG, DUMP_FLAG }
        /\ ~IsEqForm(s[k], YML_FLAG)
        /\ ~IsEqForm(s[k], ENV_FLAG)

\* C1: whenever process() completes, the rewritten list is the input with
\* each recognized custom flag replaced in place (--yml-file V and
\* --yml-file=V by -f V, --env-file V and --env-file=V by --env-file V,
\* --dump by nothing) and every other token copied in order; the tokens
\* emitted so far are that replacement of the tokens consumed so far; an
\* input without custom flags comes out token for token.
C1_InPlaceRewrite ==
    /\ rw.pc = "loop" => rw.out = InPlace(SubSeq(rw.rewritten, 1, rw.i))
    /\ rw.pc = "returned" =>
          /\ rw.rewritten = InPlace(rw.original_argv)
          /\ NoCustomFlag(rw.original_argv) => rw.rewritten = rw.original_argv

C1_Witness ==
    /\ rw.pc = "returned"
    /\ rw.original_argv = << << "u", "p" >>, YML_FLAG, DUMP_FLAG >>
    /\ rw.rewritten = << << "u", "p" >>, DASH_F, DUMP_FLAG >>

\* C2 as stated: for every prefix, value and suffix the two forms of
\* --yml-file end the same way, with the same rewritten list and the same
\* custom-flag state.
C2_AnyPrefix ==
    forms.phase = "done" =>
        /\ forms.two.pc = forms.one.pc
        /\ forms.two.pc = "returned" =>
              /\ forms.two.rewritten = forms.one.rewritten
              /\ forms.two.custom = forms.one.custom

\* the rewriter's cursor lands on the flag: the prefix is rewritten whole
CursorReachesFlag(pre) == Process(ArgRewriter(pre)).pc = "returned"

\* C2: when the prefix does not end in a value-taking flag that takes the
\* --yml-file token as its value, the two forms of --yml-file end the same
\* way, with the same rewritten list, holding -f V where the occurrence
\* stood, and the same custom-flag state.
C2_TwoFormsAgree ==
    (forms.phase = "done" /\ CursorReachesFlag(forms.pre)) =>
        LET p == Len(Process(ArgRewriter(forms.pre)).rewritten)
        IN  /\ forms.two.pc = forms.one.pc
            /\ forms.two.pc = "returned" =>
                  /\ forms.two.rewritten = forms.one.rewritten
                  /\ forms.two.custom = forms.one.custom
                  /\ forms.two.rewritten[p + 1] = DASH_F
                  /\ forms.two.rewritten[p + 2] = forms.val

C2_Witness ==
    /\ forms.phase = "done"
    /\ forms.pre = << << "u", "p" >> >>
    /\ forms.val = << "o", "=", "p" >>
    /\ forms.one.pc = "returned"
    /\ forms.one.custom.yml_file = Some(<< "o", "=", "p" >>)
    /\ forms.two.rewritten = << << "u", "p" >>, DASH_F, << "o", "=", "p" >> >>

\* the text of a line after its first "=", trimmed
TrimmedValue(raw_line) ==
    LET line == Strip(raw_line)
        e == CHOOSE k \in 1..Len(line) :
                 line[k] = "=" /\ \A h \in 1..(k - 1) : line[h] # "="
    IN  Strip([k \in 1..(Len(line) - e) |-> line[e + k]])

\* line j is the line that binds its key: its key is valid, was not bound
\* at the call, and no earlier line of the file has that key
Binds(j) ==
    /\ ~ParseLine(ld.lines[j]).skip
    /\ ParseLine(ld.lines[j]).key \notin DOMAIN ld.environ0
    /\ \A h \in 1..(j - 1) :
           ParseLine(ld.lines[h]).skip \/ ParseLine(ld.lines[h]).key # ParseLine(ld.lines[j]).key

StoredFor(j) == environ[ParseLine(ld.lines[j]).key]

LoaderRan == ld.pc \in { "loop", "returned" }

\* C3: a key bound at the call keeps its value and is not among the keys
\* returned; no key is returned twice; a key the file binds holds the value
\* of the first valid line that has it.
C3_AmbientWins ==
    LoaderRan =>
        /\ \A k \in DOMAIN ld.environ0 :
               /\ k \in DOMAIN environ
               /\ environ[k] = ld.environ0[k]
               /\ ~Contains(ld.loaded_keys, k)
        /\ \A a, b \in 1..Len(ld.loaded_keys) :
               a # b => ld.loaded_keys[a] # ld.loaded_keys[b]
        /\ \A j \in 1..ld.idx :
               Binds(j) =>
                   /\ Contains(ld.loaded_keys, ParseLine(ld.lines[j]).key)
                   /\ StoredFor(j) = ParseLine(ld.lines[j]).val

C3_Witness ==
    /\ ld.pc = "returned"
    /\ ld.idx = 3
    /\ ld.lines = << FOO_KEY \o << "=", "f" >>, K_KEY \o << "=", "v" >>,
                    << "E", "x", "p", "o", "r", "t", " ", " ", "K", " ", "=", " ", "w", "\n" >> >>
    /\ FOO_KEY \in DOMAIN ld.environ0
    /\ K_KEY \notin DOMAIN ld.environ0
    /\ environ[FOO_KEY] = << "a", "m", "b" >>
    /\ environ[K_KEY] = << "v" >>
    /\ ld.loaded_keys = << K_KEY >>

\* the quote state of the scan before the character at k: inside single
\* quotes, inside double quotes, after an escaping backslash
RECURSIVE QuoteState(_, _)
QuoteState(text, k) ==
    IF k = 1 THEN [s |-> FALSE, d |-> FALSE, e |-> FALSE]
    ELSE LET q == QuoteState(text, k - 1)
             ch == text[k - 1]
         IN  CASE q.e -> [q EXCEPT !.e = FALSE]
               [] ~q.e /\ ch = BACKSLASH -> [q EXCEPT !.e = TRUE]
               [] ~q.e /\ ch = SQ /\ ~q.d -> [q EXCEPT !.s = ~q.s]
               [] ~q.e /\ ch = DQ /\ ~q.s -> [q EXCEPT !.d = ~q.d]
               [] OTHER -> q

\* a "#" outside single quotes, outside double quotes and not escaped
CommentAt(text, k) ==
    /\ text[k] = "#"
    /\ LET q == QuoteState(text, k) IN ~q.s /\ ~q.d /\ ~q.e

\* the text before the first such "#", without trailing whitespace
BeforeComment(text) ==
    LET cut == IF \E k \in 1..Len(text) : CommentAt(text, k)
               THEN (CHOOSE k \in 1..Len(text) :
                        CommentAt(text, k) /\ \A h \in 1..(k - 1) : ~CommentAt(text, h)) - 1
               ELSE Len(text)
        last == IF \E k \in 1..cut : ~IsSpace(text[k])
                THEN CHOOSE k \in 1..cut : ~IsSpace(text[k]) /\ \A h \in (k + 1)..cut : IsSpace(text[h])
                ELSE 0
    IN  [k \in 1..last |-> text[k]]

IsQuoteChar(c) == c = SQ \/ c = DQ

\* wrapped in one matching pair of quotes
FullyWrapped(text) ==
    Len(text) >= 2 /\ IsQuoteChar(text[1]) /\ text[Len(text)] = text[1]

\* begins and ends with the same quote character (a lone quote does both)
BeginsAndEndsQuoted(text) ==
    Len(text) >= 1 /\ IsQuoteChar(text[1]) /\ text[Len(text)] = text[1]

Between(text) == [k \in 1..(Len(text) - 2) |-> text[k + 1]]

HashCount(text) == Cardinality({ k \in 1..Len(text) : text[k] = "#" })

\* the text, or the text with \n, \t, \" and \' decoded
UpToEscapes(stored, text) ==
    /\ stored = text \/ stored = DecodeEscapes(text)
    /\ HashCount(stored) = HashCount(text)

\* C4 as stated: a wrapped value is stored as the text between its quotes,
\* any other value as the text before its first unquoted, unescaped "#",
\* without trailing whitespace.
C4_AsStated ==
    LoaderRan =>
        \A j \in 1..ld.idx :
            Binds(j) =>
                LET tv == TrimmedValue(ld.lines[j])
                IN  IF FullyWrapped(tv)
                    THEN StoredFor(j) = Between(tv)
                    ELSE StoredFor(j) = BeforeComment(tv)

\* C4: a value that begins and ends with the same quote character is
\* stored as the text between the two (nothing, for a lone quote), every
\* "#" kept, with the escape sequences possibly decoded; any other value is
\* cut before its first unquoted, unescaped "#" and trimmed, and what is
\* left is stored as it is unless it begins and ends with the same quote
\* character, and then unquoted in the same way.
C4_QuotesAndComments ==
    LoaderRan =>
        \A j \in 1..ld.idx :
            Binds(j) =>
                LET tv == TrimmedValue(ld.lines[j])
                    cut == BeforeComment(tv)
                IN  IF BeginsAndEndsQuoted(tv)
                    THEN UpToEscapes(StoredFor(j), Between(tv))
                    ELSE IF BeginsAndEndsQuoted(cut)
                    THEN UpToEscapes(StoredFor(j), Between(cut))
                    ELSE StoredFor(j) = cut

C4_Witness ==
    /\ ld.pc = "returned"
    /\ ld.idx = 1
    /\ \/ /\ ld.lines = << K_KEY \o << "=", DQ, " ", HASH, DQ >> >>
          /\ environ[K_KEY] = << " ", HASH >>
       \/ /\ ld.lines = << K_KEY \o << "=", "n", " ", HASH, "n" >> >>
          /\ environ[K_KEY] = << "n" >>

\* C10: a value wrapped in single quotes is stored as the text between the
\* quotes, no escape sequence decoded.
C10_SingleQuotedVerbatim ==
    LoaderRan =>
        \A j \in 1..ld.idx :
            Binds(j) =>
                LET tv == TrimmedValue(ld.lines[j])
                IN  (FullyWrapped(tv) /\ tv[1] = SQ) => StoredFor(j) = Between(tv)

\* ------------------------------------------------------ claims on main

Printed(label) ==
    \E k \in 1..Len(trace) : trace[k].op = "stdout" /\ trace[k].arg = label

RenderFailed ==
    \E k \in 1..Len(trace) : trace[k].op = "render" /\ trace[k].arg # "ok"

TemplatePresent ==
    \E k \in 1..Len(DEFAULT_TEMPLATE_NAMES) : DEFAULT_TEMPLATE_NAMES[k] \in world.templates

\* what --dump promises of a finished run
DumpOutcome ==
    /\ ~Happened("run")
    /\ ~Happened("write")
    /\ pc = "done" =>
          IF TemplatePresent
          THEN \/ exit_code = 0 /\ Printed("rendered")
               \/ exit_code # 0 /\ RenderFailed
          ELSE exit_code = 2 /\ ~Happened("stdout")

\* the same, with the failure to create the output directory beside the
\* failure to render
DumpOutcomeOrNoDirectory ==
    /\ ~Happened("run")
    /\ ~Happened("write")
    /\ pc = "done" =>
          IF TemplatePresent
          THEN \/ exit_code = 0 /\ Printed("rendered")
               \/ exit_code # 0 /\ (RenderFailed \/ Happened("makedirs failed"))
          ELSE exit_code = 2 /\ ~Happened("stdout")

\* C5 as stated: in a Normal-mode run in which the rewriter sets the dump
\* flag the tool is never run and no file written; with a template the run
\* ends 0 with the text printed or non-zero on a render failure, without one
\* it ends 2 with nothing printed.
C5_DumpFlagSet ==
    (mode = "Normal" /\ rw.custom.dump) => DumpOutcome

\* C5: the same, of the runs in which the rewriter completes with the dump
\* flag set (it does not end the run on a flag that lacks its value), a
\* run with a template ending non-zero also when the directory of the
\* output path cannot be created.
C5_DumpNeverRuns ==
    (mode = "Normal" /\ rw.pc = "returned" /\ rw.custom.dump) => DumpOutcomeOrNoDirectory

C5_Witness ==
    /\ mode = "Normal"
    /\ pc = "done"
    /\ rw.pc = "returned"
    /\ rw.custom.dump
    /\ TemplatePresent
    /\ Happened("load_dotenv")
    /\ Printed("rendered")
    /\ exit_code = 0

LastIsValueFlag == argv # << >> /\ argv[Len(argv)] \in { ENV_FLAG, YML_FLAG }

\* the run ended at once, unsuccessfully, with nothing loaded, detected,
\* rendered or run
EndedAtOnce ==
    /\ ~Happened("load_dotenv")
    /\ ~Happened("find_template")
    /\ ~Happened("render")
    /\ ~Happened("run")
    /\ pc \notin { "main", "idle" } => (pc = "done" /\ exit_code # 0)

\* C6 as stated: every invocation whose last token is --env-file or
\* --yml-file ends at once with a non-success status, nothing loaded,
\* detected, rendered or run.
C6_AnyInvocation == LastIsValueFlag => EndedAtOnce

\* C6: so does every Normal-mode invocation whose last token is --env-file
\* or --yml-file and is not itself the value of the value-taking flag
\* before it.
C6_MissingValueEndsRun ==
    (mode = "Normal" /\ LastIsValueFlag
        /\ CursorReachesFlag(SubSeq(argv, 1, Len(argv) - 1))) => EndedAtOnce

C6_Witness ==
    /\ mode = "Normal"
    /\ argv = << << "u", "p" >>, ENV_FLAG >>
    /\ pc = "done"
    /\ exit_code = 1
    /\ Len(trace) = 1

\* the mode the token list selects, first match first
ExpectedMode(tokens) ==
    CASE Len(tokens) = 1 /\ (tokens[1] = H_SHORT \/ tokens[1] = HELP_LONG) -> "HelpPassthrough"
      [] OTHER ->
           IF \E k \in 1..Len(tokens) : tokens[k] = JHELP THEN "Help"
           ELSE IF \E k \in 1..Len(tokens) : tokens[k] = JDEBUG THEN "Debug"
           ELSE "Normal"

\* C7: the mode is chosen from the token list before anything else is
\* done, first match in the order HelpPassthrough, Help, Debug, Normal; a
\* mode does none of the work of another; Help ends 0; Help and Debug never
\* run the tool.
C7_ModeSelection ==
    /\ mode = "none" =>
          \/ pc = "idle"
          \/ pc = "main" /\ trace = << >> /\ rw = IdleRw /\ environ = MainAmbient
    /\ mode # "none" => mode = ExpectedMode(argv)
    /\ mode = "Help" =>
          /\ pc = "done"
          /\ exit_code = 0
          /\ Len(trace) = 1
          /\ Printed("help")
    /\ mode \in { "Help", "Debug" } => ~Happened("run")
    /\ mode = "HelpPassthrough" =>
          /\ ~Happened("process")
          /\ ~Happened("load_dotenv")
          /\ ~Happened("find_template")
          /\ ~Happened("render")

C7_Witness ==
    /\ mode = "Help"
    /\ Contains(argv, JDEBUG)
    /\ pc = "done"
    /\ exit_code = 0

NoRunner == ~world.docker /\ ~world.legacy

\* C8 as stated: a Normal-mode run without docker and docker-compose ends 1
\* with no binding installed from the env file, no directory created, no
\* file written and no child process.
C8_BeforeAnySideEffect ==
    (mode = "Normal" /\ NoRunner /\ pc = "done") =>
        /\ exit_code = 1
        /\ environ = MainAmbient
        /\ ~Happened("makedirs")
        /\ ~Happened("write")
        /\ ~Happened("run")

\* C8: a Normal-mode run without docker and docker-compose never spawns a
\* child process; the runner is resolved last, after the env file was
\* loaded and the template, when there is one, rendered to the output file,
\* and the run ends there with exit code 1.
C8_NoRunnerNoChild ==
    (mode = "Normal" /\ NoRunner) =>
        /\ ~Happened("run")
        /\ Happened("which") =>
              /\ pc = "done"
              /\ exit_code = 1
              /\ trace[Len(trace)].op = "which"
              /\ Happened("load_dotenv")
              /\ Happened("find_template")
              /\ TemplatePresent => Happened("write")

C8_Witness ==
    /\ mode = "Normal"
    /\ NoRunner
    /\ pc = "done"
    /\ exit_code = 1
    /\ Happened("which")
    /\ Happened("makedirs")
    /\ Happened("write")
    /\ K_KEY \in DOMAIN environ

\* the arguments the tool was run with, after the runner prefix
RunArgs ==
    LET k == CHOOSE h \in 1..Len(trace) : trace[h].op = "run"
        prefix == IF world.docker THEN 2 ELSE 1
    IN  [h \in 1..(Len(trace[k].arg) - prefix) |-> trace[k].arg[prefix + h]]

\* C9: when a Normal-mode run without --dump runs the tool, the arguments
\* are -f <output path> and then the rewritten list if a template was
\* rendered and the rewritten list holds neither -f nor --file, and the
\* rewritten list alone otherwise.
C9_DefaultInjection ==
    (mode = "Normal" /\ Happened("run")) =>
        /\ ~rw.custom.dump
        /\ IF /\ Happened("write")
              /\ \A k \in 1..Len(rw.rewritten) :
                     rw.rewritten[k] # DASH_F /\ rw.rewritten[k] # FILE_FLAG
           THEN /\ RunArgs = << DASH_F, loc.output_yml[1] >> \o rw.rewritten
                /\ loc.output_yml[1] = DEFAULT_OUTPUT_YML
           ELSE RunArgs = rw.rewritten

C9_Witness ==
    /\ mode = "Normal"
    /\ pc = "done"
    /\ argv = << << "u", "p" >> >>
    /\ Happened("run")
    /\ RunArgs = << DASH_F, DEFAULT_OUTPUT_YML, << "u", "p" >> >>

\* flag is followed by value somewhere in the rewritten list
EmittedAfter(flag, value) ==
    \E k \in 1..(Len(rw.rewritten) - 1) :
        rw.rewritten[k] = flag /\ rw.rewritten[k + 1] = value

\* the path an override selects: its value when one was given, the default
\* name only when none was
PathFor(given, default) == IF given # None THEN given[1] ELSE default

\* C11: in Normal mode the path handed to load_dotenv is the --env-file
\* override when the token list gives one, the empty string included, and
\* .env only when it gives none; the path the template is written to is
\* the --yml-file override when one is given and docker-compose.yml only
\* when none is; an override used as a path is the value the rewriter
\* emitted after --env-file, respectively -f.
C11_OverrideIsThePath ==
    mode = "Normal" =>
        \A k \in 1..Len(trace) :
            /\ trace[k].op = "load_dotenv" =>
                   /\ trace[k].arg = PathFor(rw.custom.env_file, DEFAULT_ENV_FILE)
                   /\ rw.custom.env_file # None =>
                          EmittedAfter(ENV_FLAG, trace[k].arg)
            /\ trace[k].op = "write" =>
                   /\ trace[k].arg = PathFor(rw.custom.yml_file, DEFAULT_OUTPUT_YML)
                   /\ rw.custom.yml_file # None =>
                          EmittedAfter(DASH_F, trace[k].arg)

====
